---- MODULE Spec2Model ----
(***************************************************************************)
(* Model of the CUMTD bus integration (custom_components/cumtd_bus):       *)
(* the API client's response classification (api.py), the departure        *)
(* selection and refresh cycle of CUMTDBusCoordinator (coordinator.py) and *)
(* the entry setup / unload sequence (__init__.py, sensor.py).             *)
(*                                                                         *)
(* Conventions                                                             *)
(*  - A Python Optional value is a sequence of length 0 or 1: Absent is    *)
(*    None, Some(x) is the value x.                                        *)
(*  - A Python str is a sequence of one-character strings, so that lower() *)
(*    is computed character by character.                                  *)
(*  - Python indexes the stop list from 0, the model from 1.               *)
(***************************************************************************)
EXTENDS Integers, Sequences, FiniteSets, TLC

VARIABLES
    stops,          \* entry.options[CONF_STOPS]: the configured stop list
    setupPc,        \* position of async_setup_entry / state of the entry
    coordinators,   \* the `coordinators` dict built by async_setup_entry
    firstOk,        \* history: stops whose first refresh returned data
    registered,     \* hass.data[DOMAIN][entry_id] is set
    sensors,        \* indexes that have a CUMTDNextBusSensor entity
    session,        \* CUMTDClient._client: "none", "open" or "closed"
    done,           \* history: the most recently completed refresh
    unloaded,       \* history: the successful unload since the last setup
    client,         \* the CUMTDClient object async_setup_entry built, 0: none yet
    regClient,      \* hass.data[DOMAIN][entry_id]["client"], 0 when not set
    selD,           \* selector run: the departure list handed to the selector
    selF,           \* selector run: the direction filter
    selOut,         \* selector run: the selection returned
    selRan,         \* selector run: the selector has run
    selAgain,       \* selector run: the selector has run a second time
    reqWire,        \* client call: what the HTTP GET of the call ended with
    reqOp,          \* client call: the client operation called
    reqOut,         \* client call: what _request and the operation did
    reqRan,         \* client call: the call has completed
    clClient,       \* shared client: CUMTDClient._client, 0 for None, else a session
    clSessions,     \* shared client: each session "unborn", "open" or "closed"
    clCall,         \* shared client: each caller's position in _request
    clCloses,       \* shared client: the number of close() calls so far
    clLast,         \* shared client: history of the last completed step
    optStops,       \* options: entry.options[CONF_STOPS] as the options flow saves it
    entities,       \* options: unique IDs in the entity registry for the entry
    optPc,          \* options: step of the options flow / of the reload after it
    flowEdit,       \* options: CUMTDBusOptionsFlow._edit_index
    flowStop,       \* options: CUMTDBusOptionsFlow._stop_data
    flowPath,       \* options: history, the menu choice that led to stop_configure
    optBefore       \* options: history, the registry before the last cleanup

vars == <<stops, setupPc, coordinators, firstOk, registered, sensors, session,
          done, unloaded, client, regClient, selD, selF, selOut, selRan,
          selAgain,
          reqWire, reqOp, reqOut, reqRan,
          clClient, clSessions, clCall, clCloses, clLast,
          optStops, entities, optPc, flowEdit, flowStop, flowPath, optBefore>>

schedVars == <<stops, setupPc, coordinators, firstOk, registered, sensors,
               session, done, unloaded, client, regClient>>

selVars == <<selD, selF, selOut, selRan, selAgain>>

reqVars == <<reqWire, reqOp, reqOut, reqRan>>

clVars == <<clClient, clSessions, clCall, clCloses, clLast>>

optVars == <<optStops, entities, optPc, flowEdit, flowStop, flowPath,
            optBefore>>

-----------------------------------------------------------------------------
(* Bounds *)

\* longest direction / filter string given to the selector
MaxDirLen == 1

\* most departures in a response given to the selector
MaxDeps == 2

\* most configured stops of the entry
MaxStops == 2

\* most departures in a response served to a refresh of the entry
MaxBoard == 1

\* coroutines calling the shared client concurrently
MaxCallers == 2

\* most close() calls on the shared client
MaxCloses == 2

-----------------------------------------------------------------------------
(* Optional values and strings *)

Absent == <<>>

Some(x) == <<x>>

\* all sequences over S of length lo..hi
SeqsOf(S, lo, hi) == UNION {[1..n -> S] : n \in lo..hi}

\* the characters direction labels are written with
Alphabet == {"E", "e", "W"}

\* str.lower() on one character
LowerChar(c) == CASE c = "E" -> "e"
                  [] c = "W" -> "w"
                  [] OTHER -> c

\* str.lower()
Lower(s) == [i \in DOMAIN s |-> LowerChar(s[i])]

\* Python truthiness of an Optional[str]: None and "" are falsy
Truthy(o) == o # Absent /\ o[1] # <<>>

-----------------------------------------------------------------------------
(* Data model (api.py) *)

\* Departure: the fields the coordinator and the sensor read
Departure(dir, mins) == [trip |-> [direction |-> dir], expected_mins |-> mins]

\* Departure.direction: the trip's direction, None when the trip has none
Direction(d) == d.trip.direction

\* expected_mins values of the modelled departures
Mins == {3, 5}

\* selector run: direction values (None, "" and every label up to MaxDirLen)
SelDirections == {Absent} \cup {Some(s) : s \in SeqsOf(Alphabet, 0, MaxDirLen)}

SelDepartures == {Departure(dir, m) : dir \in SelDirections, m \in Mins}

SelLists == SeqsOf(SelDepartures, 0, MaxDeps)

\* the direction filters a stop configuration can hold: the options flow
\* stores `user_input.get("direction_filter") or None`, so never ""
SelFilters == {Absent} \cup {Some(s) : s \in SeqsOf(Alphabet, 1, MaxDirLen)}

-----------------------------------------------------------------------------
(* Vocabulary of the properties, stated without the code's operators *)

\* two characters are the same letter, whatever their case
SameLetter(a, b) == a = b \/ {a, b} = {"E", "e"} \/ {a, b} = {"W", "w"}

\* two strings are equal ignoring letter case
EqualIgnoringCase(s, t) ==
    /\ Len(s) = Len(t)
    /\ \A i \in 1..Len(s) : SameLetter(s[i], t[i])

\* departure d passes the filter f: no filter, or a direction that is
\* present and equal to it ignoring case
Passes(d, f) ==
    \/ f = Absent
    \/ /\ Direction(d) # Absent
       /\ EqualIgnoringCase(Direction(d)[1], f[1])

\* the indexes of D whose departure passes f
PassingIndexes(D, f) == {i \in DOMAIN D : Passes(D[i], f)}

Lowest(S) == CHOOSE i \in S : \A j \in S : i <= j

-----------------------------------------------------------------------------
(* Departure selection (coordinator.py, _async_update_data lines 60-86) *)

\* variant: the comparison without lower()
DirectionMatches_CaseSensitive(d, f) ==
    /\ Truthy(Direction(d))
    /\ f[1] = Direction(d)[1]

\* variant: a departure without direction matches every filter
DirectionMatches_Wildcard(d, f) ==
    \/ ~Truthy(Direction(d))
    \/ Lower(f[1]) = Lower(Direction(d)[1])

\* the comprehension's condition:
\* d.direction and self.direction_filter.lower() == d.direction.lower()
DirectionMatches(d, f) ==
    /\ Truthy(Direction(d))
    /\ Lower(f[1]) = Lower(Direction(d)[1])

\* variant: the direction filter is not applied
FilterDepartures_Unfiltered(D, f) == D

\* variant: only None switches the filtering off, `is not None`
FilterDepartures_FiltersOnBlank(D, f) ==
    IF f # Absent THEN SelectSeq(D, LAMBDA d : DirectionMatches(d, f)) ELSE D

\* `departures` after the optional direction filtering
FilterDepartures(D, f) ==
    IF Truthy(f) THEN SelectSeq(D, LAMBDA d : DirectionMatches(d, f)) ELSE D

\* variant: the soonest matching departure instead of the first one
SelectDeparture_Soonest(D, f) ==
    IF D = <<>> THEN Absent
    ELSE LET departures == FilterDepartures(D, f)
         IN  IF departures = <<>> THEN Absent
             ELSE Some(departures[CHOOSE i \in DOMAIN departures :
                        \A j \in DOMAIN departures :
                           departures[i].expected_mins <= departures[j].expected_mins])

\* variant: the departure returned by the run before is passed over when
\* another one is there
SelectDeparture_SkipsPrevious(D, f) ==
    IF D = <<>> THEN Absent
    ELSE LET departures == FilterDepartures(D, f)
         IN  IF departures = <<>> THEN Absent
             ELSE IF selOut = Some(departures[1]) /\ Len(departures) > 1
             THEN Some(departures[2])
             ELSE Some(departures[1])

\* the value _async_update_data returns for response.departures = D
SelectDeparture(D, f) ==
    IF D = <<>> THEN Absent
    ELSE LET departures == FilterDepartures(D, f)
         IN  IF departures = <<>> THEN Absent ELSE Some(departures[1])

-----------------------------------------------------------------------------
(* HTTP exchange and the API client (api.py) *)

\* the departures an upstream board of the entry is made of
BoardDepartures == {Departure(Some(<<"E">>), 5), Departure(Some(<<"W">>), 3)}

\* a raw departure object of the JSON body: `complete` is FALSE when a
\* required attribute of Departure is missing from it
RawDeparture(d) == [complete |-> TRUE, value |-> d]

\* what a parser filling in defaults would build from an incomplete object
PlaceholderDeparture == Departure(Absent, 0)

IncompleteDeparture == [complete |-> FALSE, value |-> PlaceholderDeparture]

RawDepartures == {RawDeparture(d) : d \in BoardDepartures} \cup {IncompleteDeparture}

\* what one HTTP GET can end with.  transport = "error": client.get raised
\* (connection failure, timeout).  http_status: the HTTP status code.
\* status: the in-band status.code of the body, Absent without a status
\* object.  has_time: the body has a "time" field.  departures: the body's
\* "departures" array, Absent when the key is missing.
HttpResult(tr, hs, st, ht, deps) ==
    [transport |-> tr, http_status |-> hs, status |-> st, has_time |-> ht,
     departures |-> deps]

TransportFailure == HttpResult("error", 0, Absent, FALSE, Absent)

Unauthorized == HttpResult("ok", 401, Absent, FALSE, Absent)

InBandError == HttpResult("ok", 200, Some(500), FALSE, Absent)

NoTimeField(st) == HttpResult("ok", 200, st, FALSE, Some(<<>>))

\* the bodies the server answers a departures request with
Bodies ==
    {HttpResult("ok", 200, st, TRUE, deps) :
        st \in {Absent, Some(200)},
        deps \in {Absent} \cup {Some(l) : l \in SeqsOf(RawDepartures, 0, MaxBoard)}}

Responses ==
    {TransportFailure, Unauthorized, InBandError}
        \cup {NoTimeField(st) : st \in {Absent, Some(200)}}
        \cup Bodies

\* variant: AuthenticationError is not a CUMTDAPIError
IsCUMTDAPIError_ExactClass(exc) == exc = "CUMTDAPIError"

\* exception classes: CUMTDAPIError and its subclass AuthenticationError
IsCUMTDAPIError(exc) == exc \in {"CUMTDAPIError", "AuthenticationError"}

\* a call's outcome: the exception raised ("none" when it returned) and the
\* value returned
Outcome(exc, val) == [exc |-> exc, value |-> val]

\* variant: the status object of the body is not looked at
RequestExc_IgnoresInBand(r) ==
    IF r.transport = "error" THEN "TransportError"
    ELSE IF r.http_status = 401 THEN "AuthenticationError"
    ELSE "none"

\* CUMTDClient._request: the exception it raises, "none" when it returns data
RequestExc(r) ==
    IF r.transport = "error" THEN "TransportError"
    ELSE IF r.http_status = 401 THEN "AuthenticationError"
    ELSE IF r.status # Absent /\ r.status[1] # 200 THEN "CUMTDAPIError"
    ELSE "none"

\* variant: an incomplete departure object is filled in with defaults
ParseDepartures_FillsDefaults(r) ==
    LET raw == IF r.departures = Absent THEN <<>> ELSE r.departures[1]
    IN  Outcome("none", [i \in DOMAIN raw |-> raw[i].value])

\* variant: the "departures" key is required, data["departures"]
ParseDepartures_RequiresKey(r) ==
    IF r.departures = Absent THEN Outcome("KeyError", <<>>)
    ELSE IF \E i \in DOMAIN r.departures[1] : ~r.departures[1][i].complete
    THEN Outcome("ValidationError", <<>>)
    ELSE Outcome("none", [i \in DOMAIN r.departures[1] |-> r.departures[1][i].value])

\* [Departure(**d) for d in data.get("departures", [])]
ParseDepartures(r) ==
    LET raw == IF r.departures = Absent THEN <<>> ELSE r.departures[1]
    IN  IF \E i \in DOMAIN raw : ~raw[i].complete
        THEN Outcome("ValidationError", <<>>)
        ELSE Outcome("none", [i \in DOMAIN raw |-> raw[i].value])

\* CUMTDClient.get_departures_by_stop: value is DeparturesResponse.departures
GetDeparturesByStop(r) ==
    IF RequestExc(r) # "none" THEN Outcome(RequestExc(r), <<>>)
    ELSE IF ~r.has_time THEN Outcome("KeyError", <<>>)
    ELSE ParseDepartures(r)

-----------------------------------------------------------------------------
(* One client call: the HTTP exchange and what the operation makes of it *)

\* the public operations of CUMTDClient that issue a request
Operations ==
    {"validate_api_key", "get_departures_by_stop", "get_stops_by_search",
     "get_routes_by_stop"}

HttpStatuses == {200, 401, 500}

\* what client.get() ended with: body is "json" when response.json() can
\* parse the body (http then holds its content), "text" when the body is
\* no JSON, "none" when there is no body
Wire(body, http) == [body |-> body, http |-> http]

WireResponses ==
    {Wire("none", TransportFailure)}
        \cup {Wire(b, HttpResult("ok", hs, Absent, FALSE, Absent)) :
                b \in {"none", "text"}, hs \in HttpStatuses}
        \cup {Wire("json", HttpResult("ok", hs, st, ht, deps)) :
                hs \in HttpStatuses,
                st \in {Absent, Some(200), Some(500)},
                ht \in BOOLEAN,
                deps \in {Absent}
                    \cup {Some(l) : l \in SeqsOf(RawDepartures, 0, MaxBoard)}}

\* variant: the body is parsed before the HTTP status is looked at
Request_ParsesFirst(w) ==
    IF w.http.transport = "error" THEN Outcome("TransportError", Absent)
    ELSE IF w.body # "json" THEN Outcome("JSONDecodeError", Absent)
    ELSE IF RequestExc(w.http) # "none"
    THEN Outcome(RequestExc(w.http), w.http.status)
    ELSE Outcome("none", Some(w.http))

\* CUMTDClient._request: the transport error propagates, HTTP 401 raises
\* before the body is read, response.json() raises on a body that is no
\* JSON, a status object with a code other than 200 raises CUMTDAPIError
\* with that code and its message (value), otherwise the payload is returned
Request(w) ==
    IF RequestExc(w.http) \in {"TransportError", "AuthenticationError"}
    THEN Outcome(RequestExc(w.http), Absent)
    ELSE IF w.body # "json" THEN Outcome("JSONDecodeError", Absent)
    ELSE IF RequestExc(w.http) # "none"
    THEN Outcome(RequestExc(w.http), w.http.status)
    ELSE Outcome("none", Some(w.http))

\* variant: every error of the request fails the validation
ValidateApiKey_Strict(w) ==
    IF Request(w).exc = "none" THEN Outcome("none", Some(TRUE))
    ELSE Outcome(Request(w).exc, Absent)

\* CUMTDClient.validate_api_key: True when the request returned,
\* AuthenticationError re-raised, any other CUMTDAPIError means the key is
\* valid; what is no CUMTDAPIError propagates
ValidateApiKey(w) ==
    IF Request(w).exc = "none" THEN Outcome("none", Some(TRUE))
    ELSE IF Request(w).exc = "AuthenticationError"
    THEN Outcome("AuthenticationError", Absent)
    ELSE IF IsCUMTDAPIError(Request(w).exc) THEN Outcome("none", Some(TRUE))
    ELSE Outcome(Request(w).exc, Absent)

\* get_stops_by_search and get_routes_by_stop on a payload that lists no
\* stop and no route: an empty list, once the required "time" is there
GetList(w) ==
    IF Request(w).exc # "none" THEN Outcome(Request(w).exc, Absent)
    ELSE IF ~w.http.has_time THEN Outcome("KeyError", Absent)
    ELSE Outcome("none", <<>>)

\* get_departures_by_stop on what client.get() ended with
GetDepartures(w) ==
    IF Request(w).exc # "none" THEN Outcome(Request(w).exc, Absent)
    ELSE GetDeparturesByStop(w.http)

\* the operation op on what client.get() ended with
ClientCall(op, w) ==
    CASE op = "validate_api_key" -> ValidateApiKey(w)
      [] op = "get_departures_by_stop" -> GetDepartures(w)
      [] OTHER -> GetList(w)

\* variant: a request that ended in an error is sent once more
RequestGets_RetriesOnError(exc) == IF exc = "none" THEN 1 ELSE 2

\* CUMTDClient._request: how many times it calls client.get when the
\* request ends with exc; every operation calls _request once
RequestGets(exc) == 1

\* user_input[CONF_API_KEY] of the user step
SubmittedKey == "key"

\* async_create_entry(title, data={CONF_API_KEY: api_key}, options={CONF_STOPS: []})
CreateEntry(api_key) ==
    [type |-> "create_entry", errors |-> Absent,
     data |-> Some(api_key), stops |-> Some(<<>>)]

\* async_show_form(step_id="user", errors={"base": error})
ShowForm(error) ==
    [type |-> "form", errors |-> Some(error), data |-> Absent, stops |-> Absent]

NoFlowResult == [type |-> "none", errors |-> Absent, data |-> Absent, stops |-> Absent]

\* variant: an unexpected exception is not caught and the entry is created
AsyncStepUser_SwallowsUnknown(v) ==
    IF v.exc = "AuthenticationError" THEN ShowForm("invalid_auth")
    ELSE IF IsCUMTDAPIError(v.exc) THEN ShowForm("cannot_connect")
    ELSE CreateEntry(SubmittedKey)

\* CUMTDBusConfigFlow.async_step_user with user input, v being what
\* client.validate_api_key() did
AsyncStepUser(v) ==
    IF v.exc = "none" THEN CreateEntry(SubmittedKey)
    ELSE IF v.exc = "AuthenticationError" THEN ShowForm("invalid_auth")
    ELSE IF IsCUMTDAPIError(v.exc) THEN ShowForm("cannot_connect")
    ELSE ShowForm("unknown")

\* CUMTDClient._ensure_client: the session after a request was issued
EnsureClient(s) == IF s = "none" THEN "open" ELSE s

\* variant: close() leaves the session as it is
Closed_Leaves(s) == s

\* CUMTDClient.close: the session after close()
Closed(s) == IF s = "none" THEN "none" ELSE "closed"

\* CUMTDClient.close: how many times it calls aclose() on the session
AcloseCalls(s) == IF s = "none" THEN 0 ELSE 1

\* self._config_entry.data[CONF_API_KEY] before the key is edited
StoredKey == "old"

\* what async_step_edit_api_key leaves behind: the flow result, the key
\* the entry holds afterwards, and whether async_reload was awaited
EditResult(type, errors, api_key, reloaded) ==
    [type |-> type, errors |-> errors, api_key |-> api_key, reloaded |-> reloaded]

NoEditResult == EditResult("none", Absent, StoredKey, FALSE)

\* CUMTDBusOptionsFlow.async_step_edit_api_key with the new key
\* SubmittedKey, v being what client.validate_api_key() did
AsyncStepEditApiKey(v) ==
    IF v.exc = "none"
    THEN EditResult("create_entry", Absent, SubmittedKey, TRUE)
    ELSE IF v.exc = "AuthenticationError"
    THEN EditResult("form", Some("invalid_auth"), StoredKey, FALSE)
    ELSE IF IsCUMTDAPIError(v.exc)
    THEN EditResult("form", Some("cannot_connect"), StoredKey, FALSE)
    ELSE EditResult("form", Some("unknown"), StoredKey, FALSE)

\* variant: close() follows the try block instead of being its finally
\* clause, so an exception of the operation skips it
FlowCloses_SkippedOnRaise(exc) == IF exc = "none" THEN 1 ELSE 0

\* the try ... finally around the client of a flow step (user,
\* edit_api_key, stop_search, stop_configure): how many times
\* client.close() is awaited when the operation ended with exc
FlowCloses(exc) == 1

\* the client a flow step builds for its operation, once the step has
\* returned or raised: the request made _ensure_client open a session,
\* close() closes it
FlowClient(v) ==
    [created |-> 1,
     closes |-> FlowCloses(v.exc),
     session |-> IF FlowCloses(v.exc) > 0
                 THEN Closed(EnsureClient("none"))
                 ELSE EnsureClient("none")]

NoFlowClient == [created |-> 0, closes |-> 0, session |-> "none"]

\* history record of a completed call: what _request and the operation
\* did, the number of GETs sent, the client of the flow step that made the
\* call, and for a key validation what the user step of the config flow
\* made of it
CallRecord(op, w) ==
    [request |-> Request(w),
     result |-> ClientCall(op, w),
     gets |-> RequestGets(Request(w).exc),
     flow_client |-> FlowClient(ClientCall(op, w)),
     edit_key_step |-> IF op = "validate_api_key"
                       THEN AsyncStepEditApiKey(ValidateApiKey(w))
                       ELSE NoEditResult,
     user_step |-> IF op = "validate_api_key"
                   THEN AsyncStepUser(ValidateApiKey(w))
                   ELSE NoFlowResult]

NoCall ==
    [request |-> Outcome("none", Absent), result |-> Outcome("none", Absent),
     gets |-> 0, flow_client |-> NoFlowClient, edit_key_step |-> NoEditResult,
     user_step |-> NoFlowResult]

-----------------------------------------------------------------------------
(* The coordinator (coordinator.py) *)

\* variant: an exception that is no CUMTDAPIError is swallowed, None returned
UpdateData_SwallowsOther(r, f) ==
    LET response == GetDeparturesByStop(r)
    IN  IF response.exc = "none"
        THEN Outcome("none", SelectDeparture(response.value, f))
        ELSE IF IsCUMTDAPIError(response.exc)
        THEN Outcome("UpdateFailed", Absent)
        ELSE Outcome("none", Absent)

\* CUMTDBusCoordinator._async_update_data on the HTTP result r: exc is what
\* the method raises ("none" when it returns), value what it returns
UpdateData(r, f) ==
    LET response == GetDeparturesByStop(r)
    IN  IF response.exc = "none"
        THEN Outcome("none", SelectDeparture(response.value, f))
        ELSE IF IsCUMTDAPIError(response.exc)
        THEN Outcome("UpdateFailed", Absent)
        ELSE Outcome(response.exc, Absent)

\* CUMTDClient(api_key) in async_setup_entry: a new object, told apart from
\* the client of the setup before
NewClient(old) == IF old = 1 THEN 2 ELSE 1

\* variant: every coordinator is given a client of its own
NewCoordinator_OwnClient(stop) ==
    [client |-> NewClient(client),
     stop_id |-> stop.stop_id,
     direction_filter |-> stop.direction_filter,
     data |-> Absent,
     last_update_success |-> TRUE]

\* CUMTDBusCoordinator.__init__: the DataUpdateCoordinator base class starts
\* with data None and last_update_success True
NewCoordinator(stop) ==
    [client |-> client,
     stop_id |-> stop.stop_id,
     direction_filter |-> stop.direction_filter,
     data |-> Absent,
     last_update_success |-> TRUE]

\* variant: a coordinator that failed once stays failed
Refreshed_StaysStale(c, upd) ==
    IF upd.exc = "none"
    THEN [c EXCEPT !.data = upd.value]
    ELSE [c EXCEPT !.last_update_success = FALSE]

\* variant: a failed refresh clears the stored departure
Refreshed_ClearsOnFailure(c, upd) ==
    IF upd.exc = "none"
    THEN [c EXCEPT !.data = upd.value, !.last_update_success = TRUE]
    ELSE [c EXCEPT !.data = Absent, !.last_update_success = FALSE]

\* variant: a successful refresh that selected nothing keeps the old departure
Refreshed_KeepsOnEmpty(c, upd) ==
    IF upd.exc = "none"
    THEN [c EXCEPT !.data = IF upd.value = Absent THEN c.data ELSE upd.value,
                   !.last_update_success = TRUE]
    ELSE [c EXCEPT !.last_update_success = FALSE]

\* one refresh of the DataUpdateCoordinator base class around
\* _async_update_data: a returned value is stored and marks success; any
\* exception (UpdateFailed or unexpected) marks failure and keeps data
Refreshed(c, upd) ==
    IF upd.exc = "none"
    THEN [c EXCEPT !.data = upd.value, !.last_update_success = TRUE]
    ELSE [c EXCEPT !.last_update_success = FALSE]

\* variant: the refreshed state is kept in one place shared by all targets
RefreshedAt_Shared(cs, i, c2) ==
    [j \in DOMAIN cs |->
        [cs[j] EXCEPT !.data = c2.data,
                      !.last_update_success = c2.last_update_success]]

\* the coordinators after coordinator i completed a refresh as c2: data and
\* last_update_success are attributes of the coordinator object itself
RefreshedAt(cs, i, c2) == [cs EXCEPT ![i] = c2]

\* variant: a failed first refresh is tolerated
FirstRefreshRaises_Never(c) == FALSE

\* async_config_entry_first_refresh raises ConfigEntryNotReady when the
\* refresh it ran did not succeed
FirstRefreshRaises(c) == ~c.last_update_success

\* history record of an async_unload_entry that returned True, the session
\* being s when it closed the client
UnloadRecord(s) == [returned |-> TRUE, before |-> s, aclose |-> AcloseCalls(s)]

NoUnload == [returned |-> FALSE, before |-> "none", aclose |-> 0]

\* the departures of the body of r as sent, complete or not
SentDepartures(r) ==
    IF r.departures = Absent THEN <<>>
    ELSE [i \in DOMAIN r.departures[1] |-> r.departures[1][i].value]

\* r was delivered and lacks a required field: no "time", or a departure
\* object without a required attribute
LacksRequiredField(r) ==
    /\ r.transport = "ok"
    /\ r.http_status = 200
    /\ \/ ~r.has_time
       \/ /\ r.departures # Absent
          /\ \E i \in DOMAIN r.departures[1] : ~r.departures[1][i].complete

\* r is a departures response (delivered, accepted by _request, with its
\* "time") whose body has no "departures" key at all
DeparturesKeyAbsent(r) ==
    /\ RequestExc(r) = "none"
    /\ r.has_time
    /\ r.departures = Absent

\* history record of a completed refresh of coordinator idx, which was c
\* before it: what the HTTP exchange r was, what the client (cause) and
\* the update method (raised, returned) did with it
RefreshRecord(idx, first, r, upd, c) ==
    [idx |-> idx, first |-> first,
     transport |-> r.transport,
     http_status |-> r.http_status,
     lacks_field |-> LacksRequiredField(r),
     key_absent |-> DeparturesKeyAbsent(r),
     sent_passing |-> PassingIndexes(SentDepartures(r), c.direction_filter) # {},
     cause |-> GetDeparturesByStop(r).exc,
     raised |-> upd.exc,
     returned |-> upd.value,
     prev_data |-> c.data,
     prev_success |-> c.last_update_success]

NoRefresh ==
    [idx |-> 0, first |-> FALSE, transport |-> "ok", http_status |-> 200,
     lacks_field |-> FALSE, key_absent |-> FALSE, sent_passing |-> FALSE,
     cause |-> "none", raised |-> "none",
     returned |-> Absent, prev_data |-> Absent, prev_success |-> TRUE]

-----------------------------------------------------------------------------
(* The sensor entity (sensor.py): what it shows of its coordinator c *)

\* CUMTDNextBusSensor.available
Available(c) == c.last_update_success

\* variant: the value is blanked while the coordinator reports a failure
NativeValue_ClearsWhenStale(c) ==
    IF c.data = Absent \/ ~c.last_update_success THEN Absent
    ELSE Some(c.data[1].expected_mins)

\* CUMTDNextBusSensor.native_value
NativeValue(c) ==
    IF c.data = Absent THEN Absent ELSE Some(c.data[1].expected_mins)

\* CUMTDNextBusSensor.extra_state_attributes: None without data, else a
\* dict built from the stored departure (every attribute read is a required
\* field of Departure or a property that tolerates absence)
ExtraStateAttributes(c) ==
    IF c.data = Absent THEN Absent
    ELSE Some([direction |-> Direction(c.data[1]),
               stop_id |-> c.stop_id])

-----------------------------------------------------------------------------
(* The options flow and the reload after it (config_flow.py, __init__.py) *)

\* entry.entry_id
EntryId == <<"x">>

\* the stop ids a stop search offers: one already in lower case without
\* separators, one written like the ids of the API ("IT:1"), and one that
\* differs from it in the separator only
OptStopIds == {<<"e">>, <<"E", ":", "e">>, <<"E", "_", "e">>}

\* what the stop_configure form can store as route: None or a route name
OptRoutes == {Absent, Some(<<"W">>)}

\* what the stop_configure form can store as direction: None or a label
OptDirections == {Absent, Some(<<"E">>)}

\* a stop configuration dict (stop_id, route_id, direction_filter)
StopData(stop_id, route_id, direction_filter) ==
    [stop_id |-> stop_id, route_id |-> route_id,
     direction_filter |-> direction_filter]

\* self._stop_data = {}
EmptyStopData == StopData(<<>>, Absent, Absent)

\* str.replace(old, new) for single characters
Replace(s, old, new) == [i \in DOMAIN s |-> IF s[i] = old THEN new ELSE s[i]]

\* `x or "all"`
OrAll(o) == IF Truthy(o) THEN o[1] ELSE <<"a", "l", "l">>

\* f"{a}_{b}_{c}_{d}"
Joined(a, b, c, d) == a \o <<"_">> \o b \o <<"_">> \o c \o <<"_">> \o d

\* the identity key of a stop configuration
StopKey(stop) ==
    <<stop.stop_id, OrAll(stop.route_id), OrAll(stop.direction_filter)>>

\* CUMTDNextBusSensor.__init__: self._attr_unique_id
SensorUniqueId(stop) ==
    Joined(EntryId,
           Lower(Replace(Replace(stop.stop_id, ":", "_"), " ", "_")),
           Lower(Replace(OrAll(stop.route_id), " ", "_")),
           Lower(Replace(OrAll(stop.direction_filter), " ", "_")))

\* _async_cleanup_orphaned_entities: the unique_id it computes for a stop
CleanupUniqueId(stop) ==
    Joined(EntryId, stop.stop_id, OrAll(stop.route_id),
           OrAll(stop.direction_filter))

\* variant: every registered unique id counts as valid
ValidUniqueIds_KeepsAll(sts) == entities

\* _async_cleanup_orphaned_entities: valid_unique_ids
ValidUniqueIds(sts) == {CleanupUniqueId(sts[i]) : i \in DOMAIN sts}

\* variant: pop() without an index, which removes the last element
Popped_Last(sts, idx) == SubSeq(sts, 1, Len(sts) - 1)

\* stops.pop(idx)
Popped(sts, idx) ==
    [i \in 1..(Len(sts) - 1) |-> IF i < idx THEN sts[i] ELSE sts[i + 1]]

\* async_step_stop_configure, line 328: stops[self._edit_index] raises
\* IndexError when the index is past the end of the list
SaveRaises(sts, edit) == edit # Absent /\ edit[1] > Len(sts)

\* async_step_stop_configure, lines 326-330: the list to save
SavedStops(sts, edit, data) ==
    IF edit # Absent THEN [sts EXCEPT ![edit[1]] = data] ELSE Append(sts, data)

\* async_create_entry(data={CONF_STOPS: sts}) ends the flow; the update
\* listener async_reload_entry runs when the options differ from before
AfterSave(sts) == IF sts # optStops THEN "changed" ELSE "idle"

\* the unique ids the sensor platform registers for the stop list sts
SensorUniqueIds(sts) == {SensorUniqueId(sts[i]) : i \in DOMAIN sts}

\* the user opens the options (again, after a step that raised):
\* CUMTDBusOptionsFlow.__init__ and the menu of async_step_init
FlowOpen ==
    /\ optPc \in {"idle", "error"}
    /\ optPc' = "menu"
    /\ flowEdit' = Absent
    /\ flowStop' = EmptyStopData
    /\ flowPath' = "none"
    /\ UNCHANGED <<optStops, entities, optBefore, schedVars, selVars, reqVars,
                   clVars>>

\* menu -> async_step_add_stop -> async_step_stop_search with a selection:
\* _stop_data is reset and gets the chosen stop, the stop_configure form
\* is shown
AddStop(stop_id) ==
    /\ optPc = "menu"
    /\ Len(optStops) < MaxStops
    /\ flowStop' = StopData(stop_id, Absent, Absent)
    /\ flowPath' = "add"
    /\ optPc' = "stop_configure"
    /\ UNCHANGED <<optStops, entities, flowEdit, optBefore, schedVars, selVars,
                   reqVars, clVars>>

\* menu -> async_step_manage_stops with a chosen index (idx counts from 1)
ManageStops(idx) ==
    /\ optPc = "menu"
    /\ idx \in DOMAIN optStops
    /\ flowEdit' = Some(idx)
    /\ optPc' = "stop_action"
    /\ UNCHANGED <<optStops, entities, flowStop, flowPath, optBefore, schedVars,
                   selVars, reqVars, clVars>>

\* async_step_stop_action with action "edit" -> async_step_edit_stop
EditStop ==
    /\ optPc = "stop_action"
    /\ IF flowEdit = Absent \/ flowEdit[1] > Len(optStops)
       THEN /\ optPc' = "menu"
            /\ flowStop' = flowStop
            /\ flowPath' = flowPath
       ELSE /\ optPc' = "stop_configure"
            /\ flowStop' = optStops[flowEdit[1]]
            /\ flowPath' = "edit"
    /\ UNCHANGED <<optStops, entities, flowEdit, optBefore, schedVars, selVars,
                   reqVars, clVars>>

\* async_step_stop_action with action "remove" -> async_step_remove_stop
RemoveStop ==
    /\ optPc = "stop_action"
    /\ IF flowEdit # Absent /\ flowEdit[1] <= Len(optStops)
       THEN /\ optStops' = Popped(optStops, flowEdit[1])
            /\ optPc' = "changed"
       ELSE /\ optStops' = optStops
            /\ optPc' = "menu"
    /\ UNCHANGED <<entities, flowEdit, flowStop, flowPath, optBefore, schedVars,
                   selVars, reqVars, clVars>>

\* async_step_stop_configure with user input: when the route request
\* failed the form is shown again; otherwise the form values are put into
\* _stop_data and the stop is stored at the edited index or appended and
\* the flow ends, unless the index is past the end and the step raises
\* (the list is kept within MaxStops)
StopConfigure(route_id, direction_filter, api_ok) ==
    /\ optPc = "stop_configure"
    /\ api_ok /\ flowEdit = Absent => Len(optStops) < MaxStops
    /\ IF api_ok
       THEN LET data == StopData(flowStop.stop_id, route_id, direction_filter)
                sts  == SavedStops(optStops, flowEdit, data)
            IN  /\ flowStop' = data
                /\ IF SaveRaises(optStops, flowEdit)
                   THEN /\ optStops' = optStops
                        /\ optPc' = "error"
                   ELSE /\ optStops' = sts
                        /\ optPc' = AfterSave(sts)
       ELSE UNCHANGED <<flowStop, optStops, optPc>>
    /\ UNCHANGED <<entities, flowEdit, flowPath, optBefore, schedVars, selVars,
                   reqVars, clVars>>

\* async_reload_entry, first half: _async_cleanup_orphaned_entities removes
\* every registry entry whose unique_id is not in valid_unique_ids
CleanupOrphanedEntities ==
    /\ optPc = "changed"
    /\ optBefore' = entities
    /\ entities' = entities \cap ValidUniqueIds(optStops)
    /\ optPc' = "cleaned"
    /\ UNCHANGED <<optStops, flowEdit, flowStop, flowPath, schedVars, selVars,
                   reqVars, clVars>>

\* async_reload_entry, second half: the entry is reloaded and the sensor
\* platform registers one entity per configured stop under its unique id
\* (an id already in the registry keeps its entry)
Reload ==
    /\ optPc = "cleaned"
    /\ entities' = entities \cup SensorUniqueIds(optStops)
    /\ optPc' = "idle"
    /\ UNCHANGED <<optStops, flowEdit, flowStop, flowPath, optBefore, schedVars,
                   selVars, reqVars, clVars>>

\* a second CUMTDBusOptionsFlow of the same entry, finished while this one
\* waits for the user at a menu or a form: its async_step_remove_stop or
\* its add path saved the stop list sts, and async_reload_entry cleaned the
\* registry and reloaded the entry
OtherFlowSaves(sts) ==
    /\ optPc \in {"menu", "stop_action", "stop_configure"}
    /\ sts # optStops
    /\ optStops' = sts
    /\ entities' = (entities \cap ValidUniqueIds(sts)) \cup SensorUniqueIds(sts)
    /\ UNCHANGED <<optPc, flowEdit, flowStop, flowPath, optBefore, schedVars,
                   selVars, reqVars, clVars>>

\* the stop a second flow adds
OtherFlowStop == StopData(<<"e">>, Absent, Absent)

\* the lists a second flow can save: one stop removed, or one appended
OtherFlowLists ==
    {Popped(optStops, idx) : idx \in DOMAIN optStops}
        \cup {Append(optStops, OtherFlowStop) :
                n \in {k \in {Len(optStops)} : k < MaxStops}}

\* a new entry: options {CONF_STOPS: []}, no entity, no options flow open
OptionsInit ==
    /\ optStops = <<>>
    /\ entities = {}
    /\ optPc = "idle"
    /\ flowEdit = Absent
    /\ flowStop = EmptyStopData
    /\ flowPath = "none"
    /\ optBefore = {}

-----------------------------------------------------------------------------
(* Entry setup and unload (__init__.py, sensor.py) *)

\* the stop configurations of the entry (stop_id, direction_filter)
StopConfigs == [stop_id : {"IT"}, direction_filter : {Absent, Some(<<"e">>)}]

\* async_setup_entry up to the loop: a new client, no coordinators yet
SetupStart ==
    /\ setupPc \in {"not_loaded", "setup_retry"}
    /\ setupPc' = "refreshing"
    /\ coordinators' = <<>>
    /\ firstOk' = {}
    /\ session' = "none"
    /\ done' = NoRefresh
    /\ unloaded' = NoUnload
    /\ client' = NewClient(client)
    /\ UNCHANGED <<stops, registered, regClient, sensors, selVars, reqVars, clVars,
                   optVars>>

\* one iteration of the loop of async_setup_entry: create the coordinator of
\* the next stop, await its first refresh, store it in `coordinators`; a
\* failed first refresh raises out of async_setup_entry
FirstRefresh(r) ==
    /\ setupPc = "refreshing"
    /\ Len(coordinators) < Len(stops)
    /\ LET idx == Len(coordinators) + 1
           c   == NewCoordinator(stops[idx])
           upd == UpdateData(r, c.direction_filter)
           c2  == Refreshed(c, upd)
       IN  /\ session' = EnsureClient(session)
           /\ done' = RefreshRecord(idx, TRUE, r, upd, c)
           /\ firstOk' = IF upd.exc = "none" THEN firstOk \cup {idx} ELSE firstOk
           /\ IF FirstRefreshRaises(c2)
              THEN /\ setupPc' = "setup_retry"
                   /\ coordinators' = <<>>
              ELSE /\ setupPc' = setupPc
                   /\ coordinators' = Append(coordinators, c2)
    /\ UNCHANGED <<stops, registered, sensors, unloaded, client, regClient,
                   selVars, reqVars, clVars, optVars>>

\* async_setup_entry after the loop: hass.data[DOMAIN][entry_id] = {...}
SetupRegister ==
    /\ setupPc = "refreshing"
    /\ Len(coordinators) = Len(stops)
    /\ registered' = TRUE
    /\ regClient' = client
    /\ setupPc' = "forwarding"
    /\ UNCHANGED <<stops, coordinators, firstOk, sensors, session, done,
                   unloaded, client, selVars, reqVars, clVars, optVars>>

\* async_forward_entry_setups -> sensor.async_setup_entry: one sensor per
\* registered coordinator; async_setup_entry then returns True
SensorSetup ==
    /\ setupPc = "forwarding"
    /\ sensors' = DOMAIN coordinators
    /\ setupPc' = "loaded"
    /\ UNCHANGED <<stops, coordinators, firstOk, registered, session, done,
                   unloaded, client, regClient, selVars, reqVars, clVars,
                   optVars>>

\* a scheduled refresh of coordinator i (it has a listener: its sensor)
Tick(i, r) ==
    /\ i \in sensors
    /\ LET c   == coordinators[i]
           upd == UpdateData(r, c.direction_filter)
       IN  /\ coordinators' = RefreshedAt(coordinators, i, Refreshed(c, upd))
           /\ done' = RefreshRecord(i, FALSE, r, upd, c)
    /\ session' = EnsureClient(session)
    /\ UNCHANGED <<stops, setupPc, firstOk, registered, sensors, unloaded,
                   client, regClient, selVars, reqVars, clVars, optVars>>

\* async_unload_entry: when the platforms unloaded, drop the registry entry
\* and close the client
Unload(unload_ok) ==
    /\ setupPc = "loaded"
    /\ IF unload_ok
       THEN /\ registered' = FALSE
            /\ regClient' = 0
            /\ sensors' = {}
            /\ session' = Closed(session)
            /\ unloaded' = UnloadRecord(session)
            /\ setupPc' = "not_loaded"
       ELSE /\ setupPc' = "failed_unload"
            /\ UNCHANGED <<registered, regClient, sensors, session, unloaded>>
    /\ UNCHANGED <<stops, coordinators, firstOk, done, client, selVars, reqVars,
                   clVars, optVars>>

\* the coroutines calling the client; a session is named after the caller
\* whose _ensure_client created it
Callers == 1..MaxCallers

\* a caller inside _request: pc "creating" while awaiting to_thread in
\* _ensure_client, "sending" while awaiting client.get; client is the session
\* _ensure_client gave it, http whether client.get was issued on an open
\* session, after_close whether the request began after a close() call
Call(pc, sess, http, after_close) ==
    [pc |-> pc, client |-> sess, http |-> http, after_close |-> after_close]

IdleCall == Call("idle", 0, FALSE, FALSE)

\* history record of a completed step of the shared client
Step(kind, c, exc, before, after) ==
    [kind |-> kind, caller |-> c, exc |-> exc, before |-> before, after |-> after]

NoStep == Step("none", 0, "none", "none", "none")

\* CUMTDClient.__init__: self._client = None, nobody is calling
ClientInit ==
    /\ clClient = 0
    /\ clSessions = [s \in Callers |-> "unborn"]
    /\ clCall = [c \in Callers |-> IdleCall]
    /\ clCloses = 0
    /\ clLast = NoStep

\* no client call under observation
ReqIdle ==
    /\ reqWire = Wire("none", TransportFailure)
    /\ reqOp = "validate_api_key"
    /\ reqOut = NoCall
    /\ reqRan = FALSE

Init ==
    /\ ReqIdle
    /\ ClientInit
    /\ OptionsInit
    /\ stops \in SeqsOf(StopConfigs, 0, MaxStops)
    /\ setupPc = "not_loaded"
    /\ coordinators = <<>>
    /\ firstOk = {}
    /\ registered = FALSE
    /\ sensors = {}
    /\ session = "none"
    /\ done = NoRefresh
    /\ unloaded = NoUnload
    /\ client = 0
    /\ regClient = 0
    /\ selD = <<>>
    /\ selF = Absent
    /\ selOut = Absent
    /\ selRan = FALSE
    /\ selAgain = FALSE

Next ==
    \/ SetupStart
    \/ \E r \in Responses : FirstRefresh(r)
    \/ SetupRegister
    \/ SensorSetup
    \/ \E i \in 1..MaxStops, r \in Responses : Tick(i, r)
    \/ \E unload_ok \in BOOLEAN : Unload(unload_ok)

Spec == Init /\ [][Next]_vars

\* the scheduler of the coordinators: while a coordinator has its sensor as
\* listener, its refresh is scheduled again after every refresh, failed or
\* not (update_interval), so a refresh that stays due is eventually run
TickFairness == \A i \in 1..MaxStops : WF_vars(\E r \in Responses : Tick(i, r))

SpecRecover == Init /\ [][Next]_vars /\ TickFairness

-----------------------------------------------------------------------------
(* The selector on its own: every departure list and filter *)

InitSelect ==
    /\ ReqIdle
    /\ ClientInit
    /\ OptionsInit
    /\ stops = <<>>
    /\ setupPc = "not_loaded"
    /\ coordinators = <<>>
    /\ firstOk = {}
    /\ registered = FALSE
    /\ sensors = {}
    /\ session = "none"
    /\ done = NoRefresh
    /\ unloaded = NoUnload
    /\ client = 0
    /\ regClient = 0
    /\ selD \in SelLists
    /\ selF \in SelFilters
    /\ selOut = Absent
    /\ selRan = FALSE
    /\ selAgain = FALSE

\* the selection part of _async_update_data applied to (selD, selF)
RunSelect ==
    /\ ~selRan
    /\ selOut' = SelectDeparture(selD, selF)
    /\ selRan' = TRUE
    /\ UNCHANGED <<selD, selF, selAgain, schedVars, reqVars, clVars, optVars>>

\* the selection of a later _async_update_data whose response holds the
\* same departures, the filter being the same
RunSelectAgain ==
    /\ selRan
    /\ ~selAgain
    /\ selOut' = SelectDeparture(selD, selF)
    /\ selAgain' = TRUE
    /\ UNCHANGED <<selD, selF, selRan, schedVars, reqVars, clVars, optVars>>

NextSelect == RunSelect \/ RunSelectAgain

SpecSelect == InitSelect /\ [][NextSelect]_vars

\* the selector on a coordinator built with direction_filter "" or None
InitBlankFilter ==
    /\ ReqIdle
    /\ ClientInit
    /\ OptionsInit
    /\ stops = <<>>
    /\ setupPc = "not_loaded"
    /\ coordinators = <<>>
    /\ firstOk = {}
    /\ registered = FALSE
    /\ sensors = {}
    /\ session = "none"
    /\ done = NoRefresh
    /\ unloaded = NoUnload
    /\ client = 0
    /\ regClient = 0
    /\ selD \in SelLists
    /\ selF \in {Absent, Some(<<>>)}
    /\ selOut = Absent
    /\ selRan = FALSE
    /\ selAgain = FALSE

SpecBlankFilter == InitBlankFilter /\ [][NextSelect]_vars

-----------------------------------------------------------------------------
(* One client call on its own: every operation on every HTTP exchange *)

InitCall ==
    /\ ClientInit
    /\ OptionsInit
    /\ stops = <<>>
    /\ setupPc = "not_loaded"
    /\ coordinators = <<>>
    /\ firstOk = {}
    /\ registered = FALSE
    /\ sensors = {}
    /\ session = "none"
    /\ done = NoRefresh
    /\ unloaded = NoUnload
    /\ client = 0
    /\ regClient = 0
    /\ selD = <<>>
    /\ selF = Absent
    /\ selOut = Absent
    /\ selRan = FALSE
    /\ selAgain = FALSE
    /\ reqWire \in WireResponses
    /\ reqOp \in Operations
    /\ reqOut = NoCall
    /\ reqRan = FALSE

\* the operation reqOp runs to completion on the exchange reqWire
RunCall ==
    /\ ~reqRan
    /\ reqOut' = CallRecord(reqOp, reqWire)
    /\ reqRan' = TRUE
    /\ UNCHANGED <<reqWire, reqOp, schedVars, selVars, clVars, optVars>>

NextCall == RunCall

SpecCall == InitCall /\ [][NextCall]_vars

-----------------------------------------------------------------------------
(* One client shared by concurrent callers: _ensure_client and close *)

\* the session self._client refers to: "none", "open" or "closed"
ClientState == IF clClient = 0 THEN "none" ELSE clSessions[clClient]

\* variant: close() without the test for None
CloseOutcome_Unguarded(s) ==
    IF s = "none" THEN Outcome("AttributeError", s) ELSE Outcome("none", "closed")

\* CUMTDClient.close on a client whose session is s: what it raises and the
\* session afterwards
CloseOutcome(s) == Outcome("none", Closed(s))

\* variant: _ensure_client builds a session on every request
NeedsSession_Always(ref) == TRUE

\* CUMTDClient._ensure_client: `if self._client is None`
NeedsSession(ref) == ref = 0

\* _request up to its first await: _ensure_client tests self._client; None
\* starts the creation of a session in a thread, otherwise client.get is
\* called on the session found
RequestStart(c) ==
    /\ clCall[c].pc = "idle"
    /\ clCall' = [clCall EXCEPT ![c] =
            IF NeedsSession(clClient)
            THEN Call("creating", 0, FALSE, clCloses > 0)
            ELSE Call("sending", clClient, ClientState = "open", clCloses > 0)]
    /\ UNCHANGED <<clClient, clSessions, clCloses, clLast, schedVars, selVars,
                   reqVars, optVars>>

\* to_thread returned: the new session is assigned to self._client and
\* client.get is called on it
SessionCreated(c) ==
    /\ clCall[c].pc = "creating"
    /\ clSessions' = [clSessions EXCEPT ![c] = "open"]
    /\ clClient' = c
    /\ clCall' = [clCall EXCEPT ![c] = Call("sending", c, TRUE, @.after_close)]
    /\ UNCHANGED <<clCloses, clLast, schedVars, selVars, reqVars, optVars>>

\* client.get returned or raised; on a closed session it raised at once
RequestDone(c) ==
    /\ clCall[c].pc = "sending"
    /\ clLast' = Step("request", c,
                      IF clCall[c].http THEN "none" ELSE "RuntimeError",
                      ClientState, ClientState)
    /\ clCall' = [clCall EXCEPT ![c] = IdleCall]
    /\ UNCHANGED <<clClient, clSessions, clCloses, schedVars, selVars, reqVars,
                   optVars>>

\* CUMTDClient.close
Close ==
    /\ clCloses < MaxCloses
    /\ clCloses' = clCloses + 1
    /\ LET o == CloseOutcome(ClientState)
       IN  /\ clSessions' = IF clClient = 0 \/ o.exc # "none" THEN clSessions
                            ELSE [clSessions EXCEPT ![clClient] = o.value]
           /\ clLast' = Step("close", 0, o.exc, ClientState,
                             IF o.exc # "none" THEN ClientState ELSE o.value)
    /\ UNCHANGED <<clClient, clCall, schedVars, selVars, reqVars, optVars>>

InitClient ==
    /\ ReqIdle
    /\ ClientInit
    /\ OptionsInit
    /\ stops = <<>>
    /\ setupPc = "not_loaded"
    /\ coordinators = <<>>
    /\ firstOk = {}
    /\ registered = FALSE
    /\ sensors = {}
    /\ session = "none"
    /\ done = NoRefresh
    /\ unloaded = NoUnload
    /\ client = 0
    /\ regClient = 0
    /\ selD = <<>>
    /\ selF = Absent
    /\ selOut = Absent
    /\ selRan = FALSE
    /\ selAgain = FALSE

NextClient ==
    \/ \E c \in Callers : RequestStart(c)
    \/ \E c \in Callers : SessionCreated(c)
    \/ \E c \in Callers : RequestDone(c)
    \/ Close

SpecClient == InitClient /\ [][NextClient]_vars

-----------------------------------------------------------------------------
(* The options flow on its own: stops added, edited, removed, and reloads *)

InitOptions ==
    /\ ReqIdle
    /\ ClientInit
    /\ OptionsInit
    /\ stops = <<>>
    /\ setupPc = "not_loaded"
    /\ coordinators = <<>>
    /\ firstOk = {}
    /\ registered = FALSE
    /\ sensors = {}
    /\ session = "none"
    /\ done = NoRefresh
    /\ unloaded = NoUnload
    /\ client = 0
    /\ regClient = 0
    /\ selD = <<>>
    /\ selF = Absent
    /\ selOut = Absent
    /\ selRan = FALSE
    /\ selAgain = FALSE

NextOptions ==
    \/ FlowOpen
    \/ \E stop_id \in OptStopIds : AddStop(stop_id)
    \/ \E idx \in 1..MaxStops : ManageStops(idx)
    \/ EditStop
    \/ RemoveStop
    \/ \E route_id \in OptRoutes, direction_filter \in OptDirections,
          api_ok \in BOOLEAN :
            StopConfigure(route_id, direction_filter, api_ok)
    \/ CleanupOrphanedEntities
    \/ Reload

SpecOptions == InitOptions /\ [][NextOptions]_vars

\* the options flow while a second options flow of the entry may change
\* the stop list under it
NextTwoFlows ==
    \/ NextOptions
    \/ \E sts \in OtherFlowLists : OtherFlowSaves(sts)

SpecTwoFlows == InitOptions /\ [][NextTwoFlows]_vars

-----------------------------------------------------------------------------
(* The last completed refresh *)

\* a steady-state tick (not a first refresh) has completed and is the most
\* recent refresh
TickDone == done.idx # 0 /\ ~done.first

\* the coordinator that tick refreshed
Ticked == coordinators[done.idx]

-----------------------------------------------------------------------------
(* Selector properties, checked under SpecSelect *)

\* C3: the selection is absent or an element of D; with a filter set, the
\* selected departure has a direction, equal to the filter ignoring case.
C3_SelectorSound ==
    selRan /\ selOut # Absent =>
        /\ \E i \in DOMAIN selD : selD[i] = selOut[1]
        /\ selF # Absent =>
              /\ Direction(selOut[1]) # Absent
              /\ EqualIgnoringCase(Direction(selOut[1])[1], selF[1])

C3_Witness ==
    /\ selRan
    /\ selF = Some(<<"e">>)
    /\ Len(selD) = 2
    /\ Direction(selD[1]) = Some(<<"W">>)
    /\ selOut = Some(selD[2])

\* C4: the selection is the lowest-index element of D that passes the
\* filter, D[1] without a filter; it is never chosen by expected_mins.
C4_FirstMatchWins ==
    selRan =>
        /\ PassingIndexes(selD, selF) # {} =>
              selOut = Some(selD[Lowest(PassingIndexes(selD, selF))])
        /\ selF = Absent /\ selD # <<>> => selOut = Some(selD[1])

C4_Witness ==
    /\ selRan
    /\ selD = <<Departure(Some(<<"E">>), 5), Departure(Some(<<"W">>), 3)>>
    /\ selF = Some(<<"E">>)
    /\ selOut = Some(Departure(Some(<<"E">>), 5))

\* C5: the selection is absent exactly when D is empty or no departure of
\* D passes the filter.
C5_SelectorComplete ==
    selRan =>
        (selOut = Absent <=> (selD = <<>> \/ PassingIndexes(selD, selF) = {}))

C5_Witness ==
    /\ selRan
    /\ selD = <<Departure(Some(<<"E">>), 5)>>
    /\ selF = Some(<<"e">>)
    /\ selOut = Some(selD[1])

\* C6: with a filter active a departure without direction is never
\* selected; it is skipped for a later matching departure, or for absent.
C6_DirectionRequired ==
    selRan /\ selF # Absent =>
        /\ selOut # Absent => Direction(selOut[1]) # Absent
        /\ \A i \in DOMAIN selD :
              (\A j \in 1..i : Direction(selD[j]) = Absent) =>
                 LET later == {k \in PassingIndexes(selD, selF) : k > i}
                 IN  selOut = IF later = {} THEN Absent
                               ELSE Some(selD[Lowest(later)])

C6_Witness ==
    /\ selRan
    /\ selF = Some(<<"E">>)
    /\ Len(selD) = 2
    /\ Direction(selD[1]) = Absent
    /\ Direction(selD[2]) = Some(<<"e">>)
    /\ selOut = Some(selD[2])

C39_BlankFilterIsNoFilter ==
    selRan /\ selF \in {Absent, Some(<<>>)} =>
        selOut = IF selD = <<>> THEN Absent ELSE Some(selD[1])

C39_Witness ==
    /\ selRan
    /\ selF = Some(<<>>)
    /\ Len(selD) = 2
    /\ Direction(selD[1]) = Absent
    /\ Direction(selD[2]) = Some(<<>>)
    /\ selOut = Some(selD[1])

-----------------------------------------------------------------------------
(* Scheduler properties, checked under Spec *)

\* the entry is still polling: not unloaded
Polling == setupPc \in {"loaded", "failed_unload"}

\* the target of the last tick is Stale with the data it had before
StaleRetained ==
    /\ ~Ticked.last_update_success
    /\ Ticked.data = done.prev_data

\* the target of the last tick can be refreshed again
TickStillScheduled ==
    Polling => \E r \in Responses : ENABLED Tick(done.idx, r)

\* C1: a tick in which the client raises an API error, on a target whose
\* previous refresh succeeded with X, leaves last_success false and
\* last_data = X.
C1_FailureIsolation ==
    TickDone /\ done.prev_success
             /\ done.cause \in {"CUMTDAPIError", "AuthenticationError"} =>
        StaleRetained

C1_Witness ==
    /\ TickDone
    /\ done.prev_success
    /\ done.cause = "CUMTDAPIError"
    /\ done.prev_data # Absent
    /\ StaleRetained

\* C2: a tick that completes without error on a Stale target sets
\* last_success and replaces last_data by the tick's selection, by absent
\* when the response is empty or nothing passes the filter.
C2_SuccessOverwrite ==
    TickDone /\ ~done.prev_success /\ done.raised = "none" =>
        /\ Ticked.last_update_success
        /\ Ticked.data = done.returned
        /\ ~done.sent_passing => Ticked.data = Absent

C2_Witness ==
    /\ TickDone
    /\ ~done.prev_success
    /\ done.prev_data # Absent
    /\ done.raised = "none"
    /\ ~done.sent_passing
    /\ Ticked.last_update_success
    /\ Ticked.data = Absent

\* C7: a tick whose HTTP call fails in transport (or times out) ends like a
\* tick with an API error: Stale, data retained, and polling continues.
C7_TransportFailureIsStale ==
    TickDone /\ done.transport = "error" =>
        /\ StaleRetained
        /\ TickStillScheduled

C7_Witness ==
    /\ TickDone
    /\ done.transport = "error"
    /\ done.prev_success
    /\ done.prev_data # Absent
    /\ StaleRetained
    /\ Polling

\* C8: a steady-state tick answered with HTTP 401 is reported as
\* UpdateFailed, no raw API error leaves the update method, the target is
\* Stale with data retained, and later ticks still run.
C8_AuthErrorIsUpdateFailed ==
    TickDone /\ done.transport = "ok"
             /\ done.http_status = 401 =>
        /\ done.cause = "AuthenticationError"
        /\ done.raised = "UpdateFailed"
        /\ StaleRetained
        /\ TickStillScheduled

C8_Witness ==
    /\ TickDone
    /\ done.http_status = 401
    /\ done.prev_success
    /\ done.prev_data # Absent
    /\ done.raised = "UpdateFailed"
    /\ StaleRetained
    /\ Polling

\* C9: a response lacking a required field makes the tick fail (Stale, data
\* retained), and no placeholder departure is ever stored.
C9_MalformedFailsTick ==
    /\ TickDone /\ done.lacks_field =>
          /\ done.raised # "none"
          /\ StaleRetained
    /\ \A i \in DOMAIN coordinators :
          coordinators[i].data # Some(PlaceholderDeparture)

C9_Witness ==
    /\ TickDone
    /\ done.lacks_field
    /\ done.cause = "ValidationError"
    /\ done.prev_success
    /\ done.prev_data # Absent
    /\ StaleRetained

\* C10: the entry is registered and sensors exist only after every
\* configured stop completed its first refresh; a failed first refresh
\* fails the setup, and no target starts unavailable.
C10_FirstRefreshGate ==
    /\ registered \/ sensors # {} =>
          /\ firstOk = 1..Len(stops)
          /\ Len(coordinators) = Len(stops)
    /\ done.first /\ done.raised # "none" =>
          /\ setupPc = "setup_retry"
          /\ ~registered
          /\ sensors = {}
    /\ setupPc = "forwarding" =>
          \A i \in DOMAIN coordinators : coordinators[i].last_update_success

C10_Witness ==
    /\ Len(stops) = 2
    /\ done.first
    /\ done.idx = 2
    /\ done.raised # "none"
    /\ firstOk = {1}
    /\ setupPc = "setup_retry"
    /\ ~registered

-----------------------------------------------------------------------------
(* Independence of the targets, under Spec *)

\* target j still has a coordinator of its own, or is the one whose first
\* refresh async_setup_entry runs next
TargetAlive(j) ==
    \/ j \in DOMAIN coordinators
    \/ setupPc = "refreshing" /\ j = Len(coordinators) + 1

\* C11: a failed refresh of one target, its first refresh included, never
\* prevents another target's ticks: every other configured target keeps
\* its own state and goes on being refreshed.
C11_TargetIndependence ==
    done.idx # 0 /\ done.raised # "none" =>
        \A j \in (1..Len(stops)) \ {done.idx} : TargetAlive(j)


\* C15: a departures response without any departures key is an empty
\* departure list, not an error: the tick that receives it succeeds with an
\* absent selection (last_update_success true, data None).
C15_MissingKeyIsEmpty ==
    TickDone /\ done.key_absent =>
        /\ done.cause = "none"
        /\ done.raised = "none"
        /\ done.returned = Absent
        /\ Ticked.last_update_success
        /\ Ticked.data = Absent

C15_Witness ==
    /\ TickDone
    /\ done.key_absent
    /\ done.prev_data # Absent
    /\ Ticked.last_update_success
    /\ Ticked.data = Absent

\* C17: when unload succeeds, the shared session is closed exactly once,
\* the entry's client and coordinators are gone from the registry, and no
\* refresh tick of any target of the entry fires after unload returned.
C17_Teardown ==
    unloaded.returned =>
        /\ unloaded.before = "open" => session = "closed" /\ unloaded.aclose = 1
        /\ session # "open"
        /\ ~registered
        /\ \A i \in 1..MaxStops, r \in Responses : ~ENABLED Tick(i, r)

C17_Witness ==
    /\ unloaded.returned
    /\ unloaded.before = "open"
    /\ Len(stops) = MaxStops
    /\ done.idx # 0 /\ ~done.first
    /\ session = "closed"
    /\ ~registered

-----------------------------------------------------------------------------
(* The response classification of the client, under SpecCall *)

\* the call under observation completed and its HTTP response was delivered
Delivered == reqRan /\ reqWire.http.transport = "ok"

\* the delivered body is JSON
JsonDelivered == Delivered /\ reqWire.body = "json"

\* C12: key validation returns normally (the key counts as valid) unless the
\* server answers unauthorized; an unauthorized answer raises an
\* authentication error, and any other API-level error is read as proof
\* that the key is valid.
C12_ValidateTolerant ==
    Delivered /\ reqOp = "validate_api_key" =>
        /\ reqWire.http.http_status = 401 =>
                reqOut.result = Outcome("AuthenticationError", Absent)
        /\ reqWire.http.http_status # 401 /\ reqWire.body = "json" =>
                reqOut.result = Outcome("none", Some(TRUE))

C12_Witness ==
    /\ JsonDelivered
    /\ reqOp = "validate_api_key"
    /\ reqWire.http.http_status = 200
    /\ reqWire.http.status = Some(500)
    /\ reqOut.request.exc = "CUMTDAPIError"
    /\ reqOut.result = Outcome("none", Some(TRUE))

\* C13: an HTTP 401 answer raises an authentication error from every
\* client operation, whatever the body holds: the status is classified
\* before the body is inspected.
C13_UnauthorizedFirst ==
    Delivered /\ reqWire.http.http_status = 401 =>
        /\ reqOut.request = Outcome("AuthenticationError", Absent)
        /\ reqOut.result = Outcome("AuthenticationError", Absent)

C13_Witness ==
    /\ Delivered
    /\ reqWire.http.http_status = 401
    /\ reqWire.body = "text"
    /\ reqOp = "get_departures_by_stop"
    /\ reqOut.result.exc = "AuthenticationError"

\* C14: when the HTTP status is not 401 and the JSON body carries a status
\* object whose code is not 200, the request raises a non-authentication
\* API error carrying that code; when the status object is absent or its
\* code is 200, the request returns the payload.
C14_InBandStatus ==
    JsonDelivered /\ reqWire.http.http_status # 401 =>
        IF reqWire.http.status \in {Absent, Some(200)}
        THEN /\ reqOut.request.exc = "none"
             /\ reqOut.request.value = Some(reqWire.http)
        ELSE /\ reqOut.request.exc = "CUMTDAPIError"
             /\ reqOut.request.value = reqWire.http.status
             /\ reqOp # "validate_api_key" =>
                    reqOut.result = Outcome("CUMTDAPIError", Absent)

C14_Witness ==
    /\ JsonDelivered
    /\ reqWire.http.http_status = 200
    /\ reqWire.http.status = Some(500)
    /\ reqOp = "get_routes_by_stop"
    /\ reqOut.request = Outcome("CUMTDAPIError", Some(500))
    /\ reqOut.result.exc = "CUMTDAPIError"

-----------------------------------------------------------------------------
(* The session of the shared client, under SpecClient *)

\* the sessions created so far
Created == {s \in Callers : clSessions[s] # "unborn"}

\* C16: when two callers concurrently issue the first request on the same
\* client, exactly one session is created and both use it: no second
\* session is ever created or left open and unreferenced.
C16_SingleSession ==
    /\ Cardinality(Created) <= 1
    /\ \A s \in Created : clSessions[s] = "open" => clClient = s

\* a step that creates a session is the step of a request that was
\* awaiting the creation, and the handle then holds that session
OnlyRequestsCreate ==
    Created' # Created =>
        \E c \in Callers :
            /\ clCall[c].pc = "creating"
            /\ Created' = Created \cup {c}
            /\ clClient' = c

\* a request that begins while the handle is set sends on the session the
\* handle holds and creates none
LaterRequestsReuse ==
    \A c \in Callers :
        clCall[c].pc = "idle" /\ clCall'[c].pc # "idle" /\ clClient # 0 =>
            /\ clCall'[c].pc = "sending"
            /\ clCall'[c].client = clClient
            /\ Created' = Created

\* C22: constructing a client creates no session and the handle stays
\* absent until the first request; a session is only ever created by a
\* request that found the handle absent, and every request that begins once
\* the handle is set sends on the session the handle holds and creates none.
C22_LazySession ==
    /\ [](clClient = 0 <=> Created = {})
    /\ [][OnlyRequestsCreate /\ LaterRequestsReuse]_vars

C22_Witness ==
    /\ Created = {1}
    /\ clClient = 1
    /\ clCloses = 0
    /\ clCall[1].pc = "idle"
    /\ clCall[2].pc = "sending"
    /\ clCall[2].client = 1
    /\ clLast.kind = "request"

\* C19: close() on a client that never issued a request does nothing and
\* raises nothing, and a close() after the first leaves the client as one
\* call left it, without error.
C19_CloseIdempotent ==
    [][Close =>
        /\ clLast'.exc = "none"
        /\ ClientState \in {"none", "closed"} =>
                /\ ClientState' = ClientState
                /\ clSessions' = clSessions
                /\ clClient' = clClient]_vars

C19_Witness ==
    /\ clLast.kind = "close"
    /\ clCloses = 2
    /\ clLast.before = "closed"
    /\ clLast.after = "closed"

\* C20: once close() has been called on a client, whether or not a session
\* had been opened before, no later request opens a new session or performs
\* an HTTP call on an open session.
C20_CloseIsTerminal ==
    \A c \in Callers :
        clCall[c].after_close =>
            /\ clCall[c].pc # "creating"
            /\ ~(clCall[c].pc = "sending" /\ clCall[c].http)

\* the user step of the config flow ran on the observed key validation
UserStepDone == reqRan /\ reqOp = "validate_api_key"

\* C27: the user step creates an entry only when the key validation
\* succeeds, with the submitted key as data and an empty stop list; on
\* AuthenticationError the form is shown again with invalid_auth, on an
\* unexpected exception with unknown, and no entry is created then.
C27_UserStep ==
    UserStepDone =>
        /\ reqOut.user_step.type = "create_entry" <=> reqOut.result.exc = "none"
        /\ reqOut.user_step.type = "create_entry" =>
              /\ reqOut.user_step.data = Some(SubmittedKey)
              /\ reqOut.user_step.stops = Some(<<>>)
        /\ reqOut.result.exc = "AuthenticationError" =>
              reqOut.user_step = ShowForm("invalid_auth")
        /\ ~IsCUMTDAPIError(reqOut.result.exc) /\ reqOut.result.exc # "none" =>
              reqOut.user_step = ShowForm("unknown")

C27_Witness ==
    /\ UserStepDone
    /\ reqWire.http.transport = "error"
    /\ reqOut.result.exc = "TransportError"
    /\ reqOut.user_step = ShowForm("unknown")

\* C28: when the key validation of the user step meets an API error that
\* is no authentication error, the form is shown again with cannot_connect
\* and no entry is created.
C28_ApiErrorShowsForm ==
    UserStepDone /\ reqOut.request.exc = "CUMTDAPIError" =>
        reqOut.user_step = ShowForm("cannot_connect")

KeyKeptWithError(e) ==
    reqOut.edit_key_step = EditResult("form", Some(e), StoredKey, FALSE)

\* C36: the stored key is replaced and the entry reloaded only after the
\* new key has validated; when the validation request fails with an
\* authentication error, an API error or an unexpected error, the stored
\* key is unchanged, no reload is triggered, and the form is shown again
\* with invalid_auth, cannot_connect or unknown respectively.
C36_EditApiKey ==
    UserStepDone =>
        /\ reqOut.edit_key_step.api_key # StoredKey \/ reqOut.edit_key_step.reloaded =>
              reqOut.request.exc = "none"
        /\ reqOut.request.exc = "AuthenticationError" => KeyKeptWithError("invalid_auth")
        /\ reqOut.request.exc = "CUMTDAPIError" => KeyKeptWithError("cannot_connect")
        /\ reqOut.request.exc \notin {"none", "AuthenticationError", "CUMTDAPIError"} =>
              KeyKeptWithError("unknown")

-----------------------------------------------------------------------------
(* The hub: one client for all coordinators of the entry, under Spec *)

\* C21: setup creates exactly one coordinator per configured stop, in list
\* order; every coordinator of the entry uses the same single client, the
\* one stored in the registry for the entry.
C21_Hub ==
    registered =>
        /\ Len(coordinators) = Len(stops)
        /\ \A i \in DOMAIN coordinators :
              /\ coordinators[i].stop_id = stops[i].stop_id
              /\ coordinators[i].direction_filter = stops[i].direction_filter
              /\ coordinators[i].client = regClient
        /\ regClient = client
        /\ sensors \subseteq DOMAIN coordinators

C21_Witness ==
    /\ registered
    /\ setupPc = "loaded"
    /\ Len(stops) = 2
    /\ stops[1] # stops[2]
    /\ sensors = {1, 2}
    /\ coordinators[1].client = coordinators[2].client
    /\ regClient = 2

-----------------------------------------------------------------------------
(* What the sensors show, under Spec *)

\* C23: in every reachable state the sensor's availability flag equals the
\* target's last_update_success, its value is data.expected_mins when data
\* is present and None otherwise, and its attributes are None exactly when
\* data is None; a target that went Stale after a good reading X still
\* shows X's minutes while reporting unavailable.
C23_Presentation ==
    /\ \A i \in sensors :
          /\ Available(coordinators[i]) = coordinators[i].last_update_success
          /\ coordinators[i].data = Absent =>
                /\ NativeValue(coordinators[i]) = Absent
                /\ ExtraStateAttributes(coordinators[i]) = Absent
          /\ coordinators[i].data # Absent =>
                /\ NativeValue(coordinators[i])
                      = Some(coordinators[i].data[1].expected_mins)
                /\ ExtraStateAttributes(coordinators[i]) # Absent
    /\ TickDone /\ done.raised # "none" /\ done.prev_data # Absent =>
          /\ ~Available(Ticked)
          /\ NativeValue(Ticked) = Some(done.prev_data[1].expected_mins)

C23_Witness ==
    /\ TickDone
    /\ done.idx \in sensors
    /\ done.raised # "none"
    /\ done.prev_success
    /\ done.prev_data # Absent
    /\ ~Available(Ticked)
    /\ NativeValue(Ticked) = Some(5)
    /\ ExtraStateAttributes(Ticked) # Absent

-----------------------------------------------------------------------------
(* The configured stop list and the entity registry, under SpecOptions *)

\* C24: after any sequence of add, edit and remove steps in the options
\* flow, no two entries of the configured stop list have the same key
\* (stop_id, route_id or "all", direction_filter or "all").
C24_KeysUnique ==
    \A i, j \in DOMAIN optStops :
        StopKey(optStops[i]) = StopKey(optStops[j]) => i = j

\* C25: for every stop that is still configured, the unique id the sensor
\* platform gave its entity is among the valid ids of the orphan cleanup, so
\* the entity of a configured stop survives the cleanup of a reload.
C25_ConfiguredKept ==
    /\ \A i \in DOMAIN optStops :
          SensorUniqueId(optStops[i]) \in ValidUniqueIds(optStops)
    /\ optPc = "cleaned" =>
          \A i \in DOMAIN optStops :
              SensorUniqueId(optStops[i]) \in optBefore =>
                  SensorUniqueId(optStops[i]) \in entities

\* the unique id uid names the stop: it is the id the sensor platform or
\* the cleanup computes for it
Corresponds(uid, stop) ==
    uid \in {SensorUniqueId(stop), CleanupUniqueId(stop)}

\* the entities registered before the last cleanup that name no stop of
\* the configured list
Orphans ==
    {e \in optBefore : \A i \in DOMAIN optStops : ~Corresponds(e, optStops[i])}

\* C26: on an options change every registered entity whose unique id
\* corresponds to no configured stop is removed (all of them when no stop
\* is configured), and the removal happens before the reload.
C26_OrphansRemoved ==
    /\ [](optPc = "cleaned" =>
            /\ Orphans \cap entities = {}
            /\ optStops = <<>> => entities = {})
    /\ [][optPc = "changed" => optPc' = "cleaned" /\ entities' \subseteq entities]_vars
    /\ [][~(entities' \subseteq entities) => optPc = "cleaned"]_vars

C26_Witness ==
    /\ optPc = "cleaned"
    /\ Len(optStops) = 1
    /\ Orphans # {}
    /\ Orphans \cap entities = {}

\* C33: any two stop configurations of the same entry that differ in stop,
\* route filter or direction filter get different sensor unique IDs.
C33_NoCollision ==
    \A i, j \in DOMAIN optStops :
        optStops[i] # optStops[j] =>
            SensorUniqueId(optStops[i]) # SensorUniqueId(optStops[j])

-----------------------------------------------------------------------------
(* Edits of the stop list by one options flow, under SpecTwoFlows *)

\* the flow's stop_configure step stores the stop and ends the flow
SaveStep == optPc = "stop_configure" /\ optPc' \in {"changed", "idle"}

\* the flow's remove step deletes a stop and ends the flow
RemoveStep == optPc = "stop_action" /\ optPc' = "changed"

\* the flow's edit or remove step found its index past the end
FallbackStep == optPc = "stop_action" /\ optPc' = "menu"

\* the lists agree everywhere but at position idx of the first
SameExceptAt(before, after, idx) ==
    /\ Len(after) = Len(before)
    /\ \A j \in (DOMAIN before) \ {idx} : after[j] = before[j]

\* after is before without its element idx, the rest in the same order
SameWithout(before, after, idx) ==
    /\ Len(after) = Len(before) - 1
    /\ \A j \in DOMAIN after : after[j] = before[IF j < idx THEN j ELSE j + 1]

\* C35: saving in add mode yields the old list with the new configuration
\* appended, saving in edit mode replaces exactly the element at the edited
\* index and keeps the length, remove deletes exactly the element at the
\* chosen index, and a remove with an index past the end changes nothing.
C35_OnePositionOnly ==
    [][/\ SaveStep /\ flowEdit = Absent =>
              /\ SameExceptAt(optStops, SubSeq(optStops', 1, Len(optStops)), 0)
              /\ Len(optStops') = Len(optStops) + 1
              /\ optStops'[Len(optStops')] = flowStop'
       /\ SaveStep /\ flowEdit # Absent =>
              /\ flowEdit[1] \in DOMAIN optStops
              /\ SameExceptAt(optStops, optStops', flowEdit[1])
              /\ optStops'[flowEdit[1]] = flowStop'
       /\ RemoveStep =>
              /\ flowEdit # Absent
              /\ SameWithout(optStops, optStops', flowEdit[1])
       /\ FallbackStep => optStops' = optStops]_vars

C35_Witness ==
    /\ optPc = "changed"
    /\ flowPath = "edit"
    /\ flowEdit = Some(2)
    /\ Len(optStops) = 2
    /\ optStops[1] # optStops[2]
    /\ optStops[2] = flowStop

\* C38: within one options-flow instance, completing the add-stop path
\* always appends exactly one new stop and never overwrites or drops an
\* existing one, whatever steps ran earlier in that flow.
C38_AddAlwaysAppends ==
    [][optPc = "stop_configure" /\ flowPath = "add" /\ optPc' # optPc =>
          optStops' = Append(optStops, flowStop')]_vars

-----------------------------------------------------------------------------
(* The session of a setup that aborted, under Spec *)

\* C37: if setup aborts because a target's first refresh fails, any session
\* the shared client has opened is closed: no open session remains that is
\* neither registered for the entry nor closed.
C37_NoLeakedSession ==
    setupPc = "setup_retry" /\ ~registered => session # "open"

-----------------------------------------------------------------------------
(* Ownership of the refresh state, under Spec *)

\* target j holds in the second state of a step what it held in the first
Untouched(j) ==
    /\ j \in DOMAIN coordinators'
    /\ coordinators'[j].data = coordinators[j].data
    /\ coordinators'[j].last_update_success = coordinators[j].last_update_success

\* a step in which a scheduled refresh completes: the entry is polling
\* before and after it, and the record of the last refresh is a new one
TickCompletes == Polling /\ Polling' /\ done' # done /\ ~done'.first

\* C31: a refresh tick of one target, whether it succeeds or fails, leaves
\* the last_data and last_success of every other target unchanged.
C31_ExclusiveOwnership ==
    [][TickCompletes =>
          \A j \in (DOMAIN coordinators) \ {done'.idx} : Untouched(j)]_vars

C31_Witness ==
    /\ TickDone
    /\ Len(coordinators) = 2
    /\ done.idx = 1
    /\ done.raised # "none"
    /\ ~coordinators[1].last_update_success
    /\ coordinators[2].last_update_success
    /\ coordinators[2].data # Absent

-----------------------------------------------------------------------------
(* Recovery, under SpecRecover *)

\* target i is Fresh
Fresh(i) == i \in DOMAIN coordinators /\ coordinators[i].last_update_success

\* from here on every completed refresh succeeded and target i keeps its
\* sensor (the entry is not unloaded)
HealthyFor(i) == done.raised = "none" /\ i \in sensors

\* C30: a failed tick is followed by further ticks of the target, and if
\* from some point on the API answers every request successfully, every
\* Stale target eventually becomes Fresh and stays so, under fair
\* scheduling of the ticks.
C30_Recovery ==
    \A i \in 1..MaxStops : <>[]HealthyFor(i) => <>[]Fresh(i)

C30_Witness ==
    /\ TickDone
    /\ done.idx \in sensors
    /\ ~done.prev_success
    /\ done.prev_data # Absent
    /\ done.raised = "none"
    /\ Fresh(done.idx)

====
